---- MODULE Spec2Model ----
(***************************************************************************)
(* Model of scripts/prepare_network.py (PyPSA-Eur "Network Preparer").     *)
(*                                                                         *)
(* Strings of the wildcard language are sequences of one-character         *)
(* strings, so that the regular expressions, the substring tests and the   *)
(* float() conversions of the script are computed character by character.  *)
(* Floating point values are exact rationals [n |-> num, d |-> den] kept   *)
(* in lowest terms; np.inf is the value with denominator 0.                *)
(***************************************************************************)
EXTENDS Integers, Sequences, FiniteSets, TLC

(***************************************************************************)
(* Bounds of the model.                                                    *)
(***************************************************************************)
\* longest option list (number of "-"-separated tokens of {opts})
MaxOpts == 2

(***************************************************************************)
(* Rational arithmetic (Python floats / numpy float64 of the script).      *)
(***************************************************************************)
Abs(x) == IF x < 0 THEN -x ELSE x

RECURSIVE GCD(_, _)
GCD(a, b) == IF b = 0 THEN a ELSE GCD(b, a % b)

\* the rational num/den in lowest terms, den > 0
Rat(num, den) ==
    LET g == GCD(Abs(num), Abs(den))
        s == IF den < 0 THEN -1 ELSE 1
    IN  [n |-> s * (num \div g), d |-> s * (den \div g)]

Int2R(k) == [n |-> k, d |-> 1]
Inf == [n |-> 1, d |-> 0]
Zero == Int2R(0)
One == Int2R(1)

RMul(a, b) == Rat(a.n * b.n, a.d * b.d)
RDiv(a, b) == Rat(a.n * b.d, a.d * b.n)
RAdd(a, b) == Rat(a.n * b.d + b.n * a.d, a.d * b.d)
\* a <= b, np.inf being the largest value
RLeq(a, b) ==
    IF b.d = 0 THEN TRUE
    ELSE IF a.d = 0 THEN FALSE
    ELSE a.n * b.d <= b.n * a.d
RLt(a, b) == RLeq(a, b) /\ a # b
RMin(a, b) == IF RLeq(a, b) THEN a ELSE b
RMax(a, b) == IF RLeq(a, b) THEN b ELSE a
\* np.clip(x, lo, hi)
Clip(x, lo, hi) == RMin(RMax(x, lo), hi)

RECURSIVE RSum(_, _)
\* sum of f[k] over the finite set S
RSum(f, S) ==
    IF S = {} THEN Zero
    ELSE LET k == CHOOSE x \in S : TRUE
         IN  RAdd(f[k], RSum(f, S \ {k}))

RECURSIVE SeqSum(_)
SeqSum(s) == IF s = <<>> THEN Zero ELSE RAdd(Head(s), SeqSum(Tail(s)))

(***************************************************************************)
(* Strings.                                                                *)
(***************************************************************************)
Digits == {"0", "1", "2", "3", "4", "5", "6", "7", "8", "9"}

DigitVal(c) ==
    CASE c = "0" -> 0 [] c = "1" -> 1 [] c = "2" -> 2 [] c = "3" -> 3
      [] c = "4" -> 4 [] c = "5" -> 5 [] c = "6" -> 6 [] c = "7" -> 7
      [] c = "8" -> 8 [] c = "9" -> 9

AllDigits(s) == \A k \in 1..Len(s) : s[k] \in Digits

\* s[a..] , the Python slice s[a-1:]
From(s, a) == SubSeq(s, a, Len(s))

\* Python: s.startswith(p)
StartsWith(s, p) == Len(p) <= Len(s) /\ SubSeq(s, 1, Len(p)) = p

\* Python: sub in s (also pandas str.contains for a pattern without
\* regular-expression metacharacters)
Contains(s, sub) ==
    \E a \in 1..(Len(s) + 1) : StartsWith(From(s, a), sub)

\* position of the first occurrence of character c in s, 0 when absent
IndexOf(s, c) ==
    IF \E k \in 1..Len(s) : s[k] = c
    THEN CHOOSE k \in 1..Len(s) : s[k] = c /\ \A j \in 1..(k - 1) : s[j] # c
    ELSE 0

\* Python: s.split(c, ...)[0]
SplitHead(s, c) ==
    IF IndexOf(s, c) = 0 THEN s ELSE SubSeq(s, 1, IndexOf(s, c) - 1)

\* Python: s.split(c), the list of all fields
RECURSIVE Split(_, _)
Split(s, c) ==
    IF IndexOf(s, c) = 0 THEN <<s>>
    ELSE <<SplitHead(s, c)>> \o Split(From(s, IndexOf(s, c) + 1), c)

RECURSIVE DigitsVal(_)
DigitsVal(s) ==
    IF s = <<>> THEN 0
    ELSE DigitsVal(SubSeq(s, 1, Len(s) - 1)) * 10 + DigitVal(s[Len(s)])

RECURSIVE Pow10(_)
Pow10(k) == IF k = 0 THEN 1 ELSE 10 * Pow10(k - 1)

\* s matches [0-9]*\.?[0-9]+ in full
IsDecimal(s) ==
    /\ Len(s) >= 1
    /\ \/ AllDigits(s)
       \/ /\ IndexOf(s, ".") > 0
          /\ IndexOf(s, ".") < Len(s)
          /\ AllDigits(SubSeq(s, 1, IndexOf(s, ".") - 1))
          /\ AllDigits(From(s, IndexOf(s, ".") + 1))

\* float(s) for a string that IsDecimal
DecimalValue(s) ==
    LET p == IndexOf(s, ".")
    IN  IF p = 0 THEN Int2R(DigitsVal(s))
        ELSE Rat(DigitsVal(SubSeq(s, 1, p - 1) \o From(s, p + 1)),
                 Pow10(Len(s) - p))

(***************************************************************************)
(* The wildcard language: {opts} and {ll}.                                 *)
(***************************************************************************)
\* re.match(r'^\d+h$', o, re.IGNORECASE) is not None
IsResampleToken(o) ==
    /\ Len(o) >= 2
    /\ o[Len(o)] \in {"h", "H"}
    /\ AllDigits(SubSeq(o, 1, Len(o) - 1))

\* the number of hours of the offset string m.group(0), e.g. "24H"
OffsetHours(o) == DigitsVal(SubSeq(o, 1, Len(o) - 1))

\* re.findall("[0-9]*\.?[0-9]+$", o): the start positions of the matches;
\* the pattern is anchored at the end of the token, so the first match is the
\* longest suffix of o that the pattern matches in full
FloatStarts(o) == {a \in 1..Len(o) : IsDecimal(From(o, a))}
HasFloatSuffix(o) == FloatStarts(o) # {}
\* variant of FloatSuffix: the pattern [0-9]+$ without the decimal part
FloatSuffixDigits(o) ==
    DecimalValue(From(o, CHOOSE a \in 1..Len(o) :
                            /\ AllDigits(From(o, a))
                            /\ \A b \in 1..(a - 1) : ~AllDigits(From(o, b))))

\* float(m[0])
FloatSuffix(o) ==
    DecimalValue(From(o, CHOOSE a \in FloatStarts(o) :
                                \A b \in FloatStarts(o) : a <= b))

\* float(s) succeeds; of Python's float grammar the model covers the plain
\* decimals "12", "1.5", ".5" and "5."; every other string of the model's
\* alphabet raises ValueError
IsPyFloat(s) ==
    \/ IsDecimal(s)
    \/ /\ Len(s) >= 2
       /\ s[Len(s)] = "."
       /\ AllDigits(SubSeq(s, 1, Len(s) - 1))
PyFloat(s) == DecimalValue(s)

\* the strings the substring tests of the modifier loop look for
Co2L == <<"C", "o", "2", "L">>
SC == <<"S", "C">>
Ep == <<"E", "p">>
ATK == <<"A", "T", "K">>
ATKc == <<"A", "T", "K", "c">>
AC == <<"A", "C">>
DC == <<"D", "C">>
opt == <<"o", "p", "t">>

\* map(lambda c: c.split("-", 2)[0], n.carriers.index)
Suptechs(net) == {SplitHead(c, "-") : c \in DOMAIN net.carriers}

\* oo[0].startswith(tuple(suptechs))
IsScalingToken(net, o) ==
    \E t \in Suptechs(net) : StartsWith(Split(o, "+")[1], t)

(***************************************************************************)
(* State.                                                                  *)
(***************************************************************************)
VARIABLES
    pc,       \* the statement of __main__ that runs next, "done" or "failed"
    opts,     \* snakemake.wildcards.opts.split('-')
    ll,       \* snakemake.wildcards.ll
    config,   \* snakemake.config
    costs,    \* the cost table of snakemake.input.tech_costs
    input,    \* the network stored in snakemake.input[0]
    n,        \* the network being prepared
    Nyears,   \* number of simulated years of the loaded network
    i,        \* position of the running for loop in opts
    error,    \* the exception that ended the run, "none" while it runs
    output    \* the file snakemake.output[0]

vars == <<pc, opts, ll, config, costs, input, n, Nyears, i, error, output>>

HoursPerYear == 8760

\* float('nan') / None: the value of an argument that was not given
None == [n |-> 0, d |-> 0]

\* np.sqrt(3) to three decimals
Sqrt3 == Rat(1732, 1000)

EmptyNet ==
    [buses |-> <<>>, carriers |-> <<>>, line_types |-> <<>>, lines |-> <<>>,
     links |-> <<>>, generators |-> <<>>, storage_units |-> <<>>,
     global_constraints |-> <<>>, snapshots |-> <<>>,
     snapshot_weightings |-> <<>>, loads_t_p_set |-> <<>>]

NoFile == [exists |-> FALSE, net |-> EmptyNet]

\* the outcome of a modifier: the network, or the exception it raised
Ok(net) == [net |-> net, err |-> "none"]
Raise(net, e) == [net |-> net, err |-> e]

(***************************************************************************)
(* The modifiers.                                                          *)
(***************************************************************************)
\* pypsa: n.add("GlobalConstraint", name, ...); pypsa asserts that the name
\* is new
AddGlobalConstraint(net, name, rec) ==
    IF name \in DOMAIN net.global_constraints
    THEN Raise(net, "AssertionError")
    ELSE Ok([net EXCEPT !.global_constraints = (name :> rec) @@ @])

CO2Limit == <<"C", "O", "2", "L", "i", "m", "i", "t">>

\* variant of Co2Constant: the limit is not scaled by the simulated years
Co2ConstantUnscaled(annual_emissions, years) == annual_emissions

\* constant=annual_emissions * Nyears
Co2Constant(annual_emissions, years) == RMul(annual_emissions, years)

\* the configuration key add_co2limit reads
Co2Key(factor) == IF factor # None THEN "co2base" ELSE "co2limit"

\* annual_emissions of add_co2limit
AnnualEmissions(factor) ==
    IF factor # None
    THEN RMul(factor, config.electricity["co2base"])
    ELSE config.electricity["co2limit"]

add_co2limit(net, years, factor) ==
    IF Co2Key(factor) \notin DOMAIN config.electricity
    THEN Raise(net, "KeyError")
    ELSE AddGlobalConstraint(net, CO2Limit,
            [type |-> "", carrier_attribute |-> "co2_emissions",
             sense |-> "<=",
             constant |-> Co2Constant(AnnualEmissions(factor), years)])

\* ep of add_emission_prices for carrier c: price times emission intensity,
\* summed over the emission species (the model tracks co2 alone)
EmissionPrice(net, emission_prices, c) ==
    RMul(emission_prices["co2"], net.carriers[c].co2_emissions)

add_emission_prices(net, emission_prices) ==
    IF emission_prices = None /\ "emission_prices" \notin DOMAIN config.costs
    THEN Raise(net, "KeyError")
    ELSE LET prices == IF emission_prices = None
                       THEN config.costs["emission_prices"]
                       ELSE emission_prices
         IN Ok([net EXCEPT
                 !.generators = [g \in DOMAIN @ |->
                     [@[g] EXCEPT !.marginal_cost =
                         RAdd(@, RDiv(EmissionPrice(net, prices, net.generators[g].carrier),
                                      net.generators[g].efficiency))]],
                 !.storage_units = [u \in DOMAIN @ |->
                     [@[u] EXCEPT !.marginal_cost =
                         RAdd(@, RDiv(EmissionPrice(net, prices, net.storage_units[u].carrier),
                                      net.storage_units[u].efficiency_dispatch))]]])

\* s_max_pu of set_line_s_max_pu
SecurityMargin(n_clusters) ==
    Clip(RAdd(Rat(1, 2), RMul(Rat(1, 5), Rat(n_clusters - 37, 200 - 37))),
         Rat(1, 2), Rat(7, 10))

set_line_s_max_pu(net) ==
    [net EXCEPT !.lines = [l \in DOMAIN @ |->
        [@[l] EXCEPT !.s_max_pu = SecurityMargin(Cardinality(DOMAIN net.buses))]]]

\* the positions of the snapshots that fall into the bucket of `hours` hours
\* number b (buckets are counted from hour 0 of the first day)
Bucket(net, hours, b) ==
    {k \in 1..Len(net.snapshots) : net.snapshots[k] \div hours = b}

\* n.snapshot_weightings.resample(offset).sum()
ResampleSum(net, series, hours, b) ==
    RSum(series, Bucket(net, hours, b))

\* df.resample(offset).mean(); NaN for a bucket without snapshots
ResampleMean(net, series, hours, b) ==
    IF Bucket(net, hours, b) = {} THEN None
    ELSE RDiv(RSum(series, Bucket(net, hours, b)),
              Int2R(Cardinality(Bucket(net, hours, b))))

average_every_nhours(net, offset) ==
    LET hours == OffsetHours(offset)
        first == net.snapshots[1] \div hours
        last == net.snapshots[Len(net.snapshots)] \div hours
        count == last - first + 1
    IN  [net EXCEPT
            !.snapshots = [k \in 1..count |-> (first + k - 1) * hours],
            !.snapshot_weightings =
                [k \in 1..count |->
                    ResampleSum(net, net.snapshot_weightings, hours, first + k - 1)],
            !.loads_t_p_set =
                [k \in 1..count |->
                    ResampleMean(net, net.loads_t_p_set, hours, first + k - 1)]]

\* variant of FirstResample: the loop does not break, the last match wins
LastResample(os) ==
    IF \E k \in 1..Len(os) : IsResampleToken(os[k])
    THEN CHOOSE k \in 1..Len(os) :
            /\ IsResampleToken(os[k])
            /\ \A j \in (k + 1)..Len(os) : ~IsResampleToken(os[j])
    ELSE 0

\* the first token of opts that matches the resampling pattern, 0 if none:
\* the for loop of __main__ breaks at the first match
FirstResample(os) ==
    IF \E k \in 1..Len(os) : IsResampleToken(os[k])
    THEN CHOOSE k \in 1..Len(os) :
            /\ IsResampleToken(os[k])
            /\ \A j \in 1..(k - 1) : ~IsResampleToken(os[j])
    ELSE 0

\* sel = c.df.carrier.str.contains(carrier)
CarrierSelected(component_carrier, carrier) ==
    Contains(component_carrier, carrier)

\* c.df.loc[sel, "capital_cost"] *= cost_factor
ScaleTable(table, carrier, cost_factor) ==
    [k \in DOMAIN table |->
        IF CarrierSelected(table[k].carrier, carrier)
        THEN [table[k] EXCEPT !.capital_cost = RMul(@, cost_factor)]
        ELSE table[k]]

\* the body of the carrier cost scaling loop for the token o
ScaleCosts(net, o) ==
    LET oo == Split(o, "+")
    IN  IF ~IsScalingToken(net, o) THEN Ok(net)
        ELSE IF Len(oo) < 2 THEN Raise(net, "IndexError")
        ELSE IF ~IsPyFloat(oo[2]) THEN Raise(net, "ValueError")
        ELSE IF oo[1] = AC
        THEN Ok([net EXCEPT !.lines = [l \in DOMAIN net.lines |->
                    [net.lines[l] EXCEPT !.capital_cost = RMul(@, PyFloat(oo[2]))]]])
        ELSE Ok([net EXCEPT
                    !.generators = ScaleTable(net.generators, oo[1], PyFloat(oo[2])),
                    !.links = ScaleTable(net.links, oo[1], PyFloat(oo[2])),
                    !.storage_units = ScaleTable(net.storage_units, oo[1], PyFloat(oo[2]))])

\* the body of the modifier loop for the token o: Co2L, then SC, then Ep
Co2Modifier(net, o) ==
    IF ~Contains(o, Co2L) THEN Ok(net)
    ELSE add_co2limit(net, Nyears,
                      IF HasFloatSuffix(o) THEN FloatSuffix(o) ELSE None)

ScModifier(net, o) ==
    IF ~Contains(o, SC) THEN net
    ELSE [net EXCEPT !.lines = [l \in DOMAIN net.lines |->
            [net.lines[l] EXCEPT !.s_max_pu =
                IF HasFloatSuffix(o) THEN FloatSuffix(o) ELSE One]]]

EpModifier(net, o) ==
    IF ~Contains(o, Ep) THEN Ok(net)
    ELSE add_emission_prices(net,
            IF HasFloatSuffix(o) THEN [co2 |-> FloatSuffix(o)] ELSE None)

Modify(net, o) ==
    LET a == Co2Modifier(net, o)
    IN  IF a.err # "none" THEN a
        ELSE EpModifier(ScModifier(a.net, o), o)

\* lines_s_nom of set_transmission_limit for the line l
LinesSNom(net, l) ==
    LET line == net.lines[l]
    IN  IF line.type = "" THEN line.s_nom
        ELSE RMul(RMul(Sqrt3, net.line_types[line.type].i_nom),
                  RMul(line.num_parallel, net.buses[line.bus0].v_nom))

\* links_dc_b of set_transmission_limit
LinksDc(net) == {k \in DOMAIN net.links : net.links[k].carrier = DC}

\* n.lines[col] / n.links[col] for col = 'capital_cost' if ll_type == 'c'
\* else 'length'
Col(rec, ll_type) == IF ll_type = "c" THEN rec.capital_cost ELSE rec.length

\* ref of set_transmission_limit
TransmissionRef(net, ll_type) ==
    RAdd(RSum([l \in DOMAIN net.lines |->
                  RMul(LinesSNom(net, l), Col(net.lines[l], ll_type))],
              DOMAIN net.lines),
         RSum([k \in LinksDc(net) |->
                  RMul(net.links[k].p_nom, Col(net.links[k], ll_type))],
              LinksDc(net)))

\* add_electricity.update_transmission_costs(n, costs, simple_hvdc_costs=False):
\* the capital cost of every line and of every DC link is recomputed from the
\* per-unit costs of the cost table
update_transmission_costs(net, table) ==
    [net EXCEPT
        !.lines = [l \in DOMAIN net.lines |->
            [net.lines[l] EXCEPT !.capital_cost = RMul(net.lines[l].length, table.hvac)]],
        !.links = [k \in DOMAIN net.links |->
            IF k \in LinksDc(net)
            THEN [net.links[k] EXCEPT !.capital_cost = RMul(net.links[k].length, table.hvdc)]
            ELSE net.links[k]]]

\* variant of RefNetwork: ref is assigned after update_transmission_costs
RefNetworkRecomputed(before, after) == after

\* the network that ref is computed on: ref is assigned before
\* update_transmission_costs is called
RefNetwork(before, after) == before

\* variant of MakesExtendable: >= 1.0 in place of > 1.0
MakesExtendableFromOne(factor) == factor = opt \/ RLeq(One, PyFloat(factor))

\* if factor == 'opt' or float(factor) > 1.0
MakesExtendable(factor) == factor = opt \/ RLt(One, PyFloat(factor))

\* the lines and DC links made extendable, floored at lines_s_nom resp. p_nom
Extend(net, lines_s_nom) ==
    [net EXCEPT
        !.lines = [l \in DOMAIN net.lines |->
            [net.lines[l] EXCEPT !.s_nom_min = lines_s_nom[l],
                                 !.s_nom_extendable = TRUE]],
        !.links = [k \in DOMAIN net.links |->
            IF k \in LinksDc(net)
            THEN [net.links[k] EXCEPT !.p_nom_min = net.links[k].p_nom,
                                      !.p_nom_extendable = TRUE]
            ELSE net.links[k]]]

\* f'l{ll_type}_limit'
LimitName(ll_type) == <<"l", ll_type, "_", "l", "i", "m", "i", "t">>

\* f'transmission_{con_type}_limit'
LimitType(ll_type) ==
    IF ll_type = "c" THEN "transmission_expansion_cost_limit"
    ELSE "transmission_volume_expansion_limit"

set_transmission_limit(net, ll_type, factor) ==
    LET lines_s_nom == [l \in DOMAIN net.lines |-> LinesSNom(net, l)]
        updated == update_transmission_costs(net, costs)
        ref == TransmissionRef(RefNetwork(net, updated), ll_type)
    IN  IF factor # opt /\ ~IsPyFloat(factor) THEN Raise(net, "ValueError")
        ELSE LET extended == IF MakesExtendable(factor)
                             THEN Extend(updated, lines_s_nom)
                             ELSE updated
             IN  IF factor = opt THEN Ok(extended)
                 ELSE AddGlobalConstraint(extended, LimitName(ll_type),
                        [type |-> LimitType(ll_type),
                         carrier_attribute |-> "AC, DC",
                         sense |-> "<=",
                         constant |-> RMul(PyFloat(factor), ref)])

\* dict.get(key, default)
Get(d, key, default) == IF key \in DOMAIN d THEN d[key] ELSE default

\* the key set_line_nom_max looks up in config["lines"]
LinesCeilingKey == "s_nom_max,"
\* the key set_line_nom_max looks up in config["links"]
LinksCeilingKey == "p_nom_max"

\* n.lines.s_nom_max.clip(upper=..., inplace=True), likewise for the links;
\* with the pandas releases the script was written for the clipped column is
\* written back to the table
set_line_nom_max(net) ==
    IF "lines" \notin DOMAIN config \/ "links" \notin DOMAIN config
    THEN Raise(net, "KeyError")
    ELSE LET s_nom_max_set == Get(config["lines"], LinesCeilingKey, Inf)
             p_nom_max_set == Get(config["links"], LinksCeilingKey, Inf)
         IN  Ok([net EXCEPT
                !.lines = [l \in DOMAIN net.lines |->
                    [net.lines[l] EXCEPT !.s_nom_max = RMin(@, s_nom_max_set)]],
                !.links = [k \in DOMAIN net.links |->
                    [net.links[k] EXCEPT !.p_nom_max = RMin(@, p_nom_max_set)]]])

\* the two endpoint buses of a line or link lie in different countries
CrossBorder(net, branch) ==
    net.buses[branch.bus0].country # net.buses[branch.bus1].country

\* n.mremove: the table without the rows rm
Remove(table, rm) == [k \in DOMAIN table \ rm |-> table[k]]

enforce_autarky(net, only_crossborder) ==
    LET lines_rm == IF only_crossborder
                    THEN {l \in DOMAIN net.lines : CrossBorder(net, net.lines[l])}
                    ELSE DOMAIN net.lines
        links_rm == IF only_crossborder
                    THEN {k \in DOMAIN net.links : CrossBorder(net, net.links[k])}
                    ELSE DOMAIN net.links
    IN  [net EXCEPT !.lines = Remove(net.lines, lines_rm),
                    !.links = Remove(net.links, links_rm)]

\* variant of Autarky: "ATKc" is looked for first
AutarkyCrossborderFirst(net, os) ==
    IF \E k \in 1..Len(os) : os[k] = ATKc THEN enforce_autarky(net, TRUE)
    ELSE IF \E k \in 1..Len(os) : os[k] = ATK THEN enforce_autarky(net, FALSE)
    ELSE net

\* the autarky step of __main__: "ATK" is looked for first
Autarky(net, os) ==
    IF \E k \in 1..Len(os) : os[k] = ATK THEN enforce_autarky(net, FALSE)
    ELSE IF \E k \in 1..Len(os) : os[k] = ATKc THEN enforce_autarky(net, TRUE)
    ELSE net

(***************************************************************************)
(* The runs explored: wildcards, configurations and input networks.        *)
(***************************************************************************)
gas == <<"g", "a", "s">>
biogas == <<"b", "i", "o", "g", "a", "s">>
solar == <<"s", "o", "l", "a", "r">>
wind_ac == <<"w", "i", "n", "d", "-", "a", "c">>
PHS == <<"P", "H", "S">>

\* tokens of {opts}
Tok2H == <<"2", "H">>
Tok3h == <<"3", "h">>
TokCo2L == Co2L
TokCo2L05 == Co2L \o <<"0", ".", "5">>
TokSC == SC
TokSC07 == SC \o <<"0", ".", "7">>
TokEp == Ep
TokEp2 == Ep \o <<"2">>
TokGas2 == gas \o <<"+", "2">>
TokWind2 == <<"w", "i", "n", "d", "+", "2">>
TokAC15 == AC \o <<"+", "1", ".", "5">>
TokGas == gas
TokGasX == gas \o <<"+", "x">>
TokXyz == <<"x", "y", "z">>
TokEmpty == <<>>

AllTokens ==
    {Tok2H, Tok3h, TokCo2L, TokCo2L05, TokSC, TokSC07, TokEp, TokEp2, TokGas2,
     TokWind2, TokAC15, TokGas, TokGasX, TokXyz, TokEmpty, ATK, ATKc}

\* the option lists of 1 to MaxOpts tokens over the token set T ("".split('-')
\* is [""], so the list is never empty)
OptLists(T) == UNION {[1..k -> T] : k \in 1..MaxOpts}

\* values of {ll}
LLvopt == <<"v">> \o opt
LLcopt == <<"c">> \o opt
LLv15 == <<"v", "1", ".", "5">>
LLc15 == <<"c", "1", ".", "5">>
LLv10 == <<"v", "1", ".", "0">>
LLc05 == <<"c", "0", ".", "5">>
LLvx == <<"v", "x">>
AllLL == {LLvopt, LLcopt, LLv15, LLc15, LLv10, LLc05, LLvx}

Buses ==
    [b1 |-> [country |-> "DE", v_nom |-> Int2R(1)],
     b2 |-> [country |-> "DE", v_nom |-> Int2R(1)],
     b3 |-> [country |-> "FR", v_nom |-> Int2R(2)]]

Carriers ==
    (gas :> [co2_emissions |-> Rat(1, 5)]) @@
    (biogas :> [co2_emissions |-> Zero]) @@
    (solar :> [co2_emissions |-> Zero]) @@
    (wind_ac :> [co2_emissions |-> Zero]) @@
    (PHS :> [co2_emissions |-> Zero]) @@
    (AC :> [co2_emissions |-> Zero]) @@
    (DC :> [co2_emissions |-> Zero])

LineTypes == [T1 |-> [i_nom |-> Int2R(2)]]

Line(bus0, bus1, type, s_nom, length, capital_cost, s_nom_max, extendable) ==
    [bus0 |-> bus0, bus1 |-> bus1, type |-> type, s_nom |-> Int2R(s_nom),
     num_parallel |-> One, length |-> Int2R(length),
     capital_cost |-> Int2R(capital_cost),
     s_nom_min |-> IF extendable THEN One ELSE Zero,
     s_nom_extendable |-> extendable, s_nom_max |-> s_nom_max,
     s_max_pu |-> One]

AllLines ==
    [L1 |-> Line("b1", "b2", "", 2, 3, 5, Inf, FALSE),
     L2 |-> Line("b2", "b3", "T1", 1, 2, 7, Int2R(4), FALSE),
     L3 |-> Line("b1", "b3", "", 3, 4, 6, Int2R(6), TRUE)]

Link(bus0, bus1, carrier, p_nom, length, capital_cost, p_nom_max, extendable) ==
    [bus0 |-> bus0, bus1 |-> bus1, carrier |-> carrier, p_nom |-> Int2R(p_nom),
     length |-> Int2R(length), capital_cost |-> Int2R(capital_cost),
     p_nom_min |-> IF extendable THEN One ELSE Zero,
     p_nom_extendable |-> extendable, p_nom_max |-> p_nom_max]

AllLinks ==
    [K1 |-> Link("b1", "b3", DC, 2, 4, 3, Int2R(5), FALSE),
     K2 |-> Link("b1", "b2", DC, 1, 2, 4, Inf, TRUE),
     K3 |-> Link("b2", "b3", biogas, 3, 1, 2, Int2R(3), FALSE)]

Generator(carrier, capital_cost) ==
    [carrier |-> carrier, capital_cost |-> Int2R(capital_cost),
     marginal_cost |-> One, efficiency |-> Rat(1, 2)]

Generators ==
    [G1 |-> Generator(gas, 10), G2 |-> Generator(biogas, 20),
     G3 |-> Generator(solar, 30), G4 |-> Generator(wind_ac, 40)]

StorageUnits ==
    [S1 |-> [carrier |-> PHS, capital_cost |-> Int2R(50),
             marginal_cost |-> Zero, efficiency_dispatch |-> Rat(3, 4)],
     S2 |-> [carrier |-> biogas, capital_cost |-> Int2R(60),
             marginal_cost |-> Zero, efficiency_dispatch |-> One]]

\* hourly snapshots 0, 1, ... with the given weightings
Network(lines, links, weightings, carriers) ==
    [buses |-> Buses, carriers |-> carriers, line_types |-> LineTypes,
     lines |-> [l \in lines |-> AllLines[l]],
     links |-> [k \in links |-> AllLinks[k]],
     generators |-> [g \in {g \in DOMAIN Generators :
                                Generators[g].carrier \in DOMAIN carriers}
                        |-> Generators[g]],
     storage_units |-> [u \in {u \in DOMAIN StorageUnits :
                                StorageUnits[u].carrier \in DOMAIN carriers}
                        |-> StorageUnits[u]],
     global_constraints |-> <<>>,
     snapshots |-> [k \in 1..Len(weightings) |-> k - 1],
     snapshot_weightings |-> [k \in 1..Len(weightings) |-> Int2R(weightings[k])],
     loads_t_p_set |-> [k \in 1..Len(weightings) |-> Int2R(k * k)]]

HalfYear == <<2190, 2190>>
TwoYears == <<4380, 4380, 4380, 4380>>
Uneven == <<1, 2, 3, 1, 2>>
AllWeightings == {HalfYear, TwoYears, Uneven}

BaseNetwork == Network({"L1", "L2", "L3"}, {"K1", "K2", "K3"}, TwoYears, Carriers)

\* snakemake.config; lines and links are sequences of at most one dictionary,
\* the empty sequence standing for a configuration without that section
Config(electricity, cost_keys, lines, links) ==
    [k \in {"electricity", "costs"}
            \cup (IF lines = <<>> THEN {} ELSE {"lines"})
            \cup (IF links = <<>> THEN {} ELSE {"links"}) |->
        CASE k = "electricity" -> electricity
          [] k = "costs" -> [c \in cost_keys |-> [co2 |-> Int2R(3)]]
          [] k = "lines" -> lines[1]
          [] k = "links" -> links[1]]

LinesCeiling == [s_nom_max |-> Int2R(5)]
LinksCeiling == [p_nom_max |-> Int2R(4)]
\* a section that is present and sets no ceiling
NoCeiling == [s_max_pu |-> Rat(7, 10)]

BaseConfig ==
    Config([co2base |-> Int2R(10), co2limit |-> Int2R(7)],
           {"emission_prices"}, <<LinesCeiling>>, <<LinksCeiling>>)

BaseCosts == [hvac |-> Int2R(2), hvdc |-> Int2R(3)]

Scenario(os, l, cfg, net) ==
    [opts |-> os, ll |-> l, config |-> cfg, costs |-> BaseCosts, input |-> net]

\* every option list, on the base network with the base configuration
TokenScenarios ==
    {Scenario(os, l, BaseConfig, BaseNetwork) :
        os \in OptLists(AllTokens), l \in {LLv15, LLcopt}}

\* every topology and every {ll}
NetworkScenarios ==
    {Scenario(os, l, BaseConfig, Network(lines, links, HalfYear, Carriers)) :
        os \in OptLists({ATK, ATKc, TokAC15}), l \in AllLL,
        lines \in SUBSET {"L1", "L2", "L3"},
        links \in {{}, {"K2"}, {"K1", "K3"}, {"K1", "K2", "K3"}}}

\* every configuration and every snapshot weighting
ConfigScenarios ==
    {Scenario(os, LLv10, Config(el, ck, lines, links),
              Network({"L1", "L2", "L3"}, {"K1", "K3"}, w, Carriers)) :
        os \in OptLists({TokCo2L, TokCo2L05, Tok2H, TokEp}),
        el \in {[co2base |-> Int2R(10), co2limit |-> Int2R(7)],
                [co2base |-> Int2R(10)], [co2limit |-> Int2R(7)]},
        ck \in {{}, {"emission_prices"}},
        lines \in {<<>>, <<NoCeiling>>, <<LinesCeiling>>},
        links \in {<<>>, <<NoCeiling>>, <<LinksCeiling>>},
        w \in AllWeightings}

Scenarios == TokenScenarios \cup NetworkScenarios \cup ConfigScenarios

(***************************************************************************)
(* __main__                                                                *)
(***************************************************************************)
Init ==
    /\ \E sc \in Scenarios :
        /\ opts = sc.opts
        /\ ll = sc.ll
        /\ config = sc.config
        /\ costs = sc.costs
        /\ input = sc.input
    /\ pc = "load"
    /\ n = EmptyNet
    /\ Nyears = Zero
    /\ i = 1
    /\ error = "none"
    /\ output = NoFile

inputs == <<opts, ll, config, costs, input>>

\* variant of Continue: the exception is logged and swallowed
ContinueSwallowed(r, next, j) ==
    /\ pc' = next
    /\ n' = r.net
    /\ i' = j
    /\ error' = IF r.err # "none" THEN r.err ELSE error

\* the statement at pc ran with outcome r: on an exception the run ends,
\* otherwise the network is r.net and the run goes on at `next`, the loop
\* index being j
Continue(r, next, j) ==
    IF r.err # "none"
    THEN /\ pc' = "failed"
         /\ error' = r.err
         /\ UNCHANGED <<n, i>>
    ELSE /\ pc' = next
         /\ n' = r.net
         /\ i' = j
         /\ UNCHANGED error

\* n = pypsa.Network(snakemake.input[0]); Nyears = ...
Load ==
    /\ pc = "load"
    /\ n' = input
    /\ Nyears' = RDiv(SeqSum(input.snapshot_weightings), Int2R(HoursPerYear))
    /\ pc' = "set_line_s_max_pu"
    /\ UNCHANGED <<inputs, i, error, output>>

SetLineSMaxPu ==
    /\ pc = "set_line_s_max_pu"
    /\ n' = set_line_s_max_pu(n)
    /\ pc' = "resample"
    /\ UNCHANGED <<inputs, Nyears, i, error, output>>

\* the resampling loop: the first matching token is applied, then break
Resample ==
    /\ pc = "resample"
    /\ n' = IF FirstResample(opts) = 0 THEN n
            ELSE average_every_nhours(n, opts[FirstResample(opts)])
    /\ pc' = "modifiers"
    /\ i' = 1
    /\ UNCHANGED <<inputs, Nyears, error, output>>

\* one iteration of the loop over the Co2L, SC and Ep tokens
ModifierStep ==
    /\ pc = "modifiers"
    /\ Continue(Modify(n, opts[i]),
                IF i = Len(opts) THEN "scaling" ELSE "modifiers",
                IF i = Len(opts) THEN 1 ELSE i + 1)
    /\ UNCHANGED <<inputs, Nyears, output>>

\* one iteration of the carrier cost scaling loop
ScalingStep ==
    /\ pc = "scaling"
    /\ Continue(ScaleCosts(n, opts[i]),
                IF i = Len(opts) THEN "set_transmission_limit" ELSE "scaling",
                IF i = Len(opts) THEN 1 ELSE i + 1)
    /\ UNCHANGED <<inputs, Nyears, output>>

\* ll_type, factor = ll[0], ll[1:]; set_transmission_limit(...)
SetTransmissionLimit ==
    /\ pc = "set_transmission_limit"
    /\ Continue(set_transmission_limit(n, ll[1], From(ll, 2)),
                "set_line_nom_max", i)
    /\ UNCHANGED <<inputs, Nyears, output>>

SetLineNomMax ==
    /\ pc = "set_line_nom_max"
    /\ Continue(set_line_nom_max(n), "autarky", i)
    /\ UNCHANGED <<inputs, Nyears, output>>

EnforceAutarky ==
    /\ pc = "autarky"
    /\ n' = Autarky(n, opts)
    /\ pc' = "export"
    /\ UNCHANGED <<inputs, Nyears, i, error, output>>

\* n.export_to_netcdf(snakemake.output[0])
Export ==
    /\ pc = "export"
    /\ output' = [exists |-> TRUE, net |-> n]
    /\ pc' = "done"
    /\ UNCHANGED <<inputs, n, Nyears, i, error>>

Next ==
    \/ Load
    \/ SetLineSMaxPu
    \/ Resample
    \/ ModifierStep
    \/ ScalingStep
    \/ SetTransmissionLimit
    \/ SetLineNomMax
    \/ EnforceAutarky
    \/ Export

Spec == Init /\ [][Next]_vars

(***************************************************************************)
(* Properties.                                                             *)
(***************************************************************************)
\* number of simulated years of the input network: total snapshot weight
\* divided by 8760
InputYears == RDiv(SeqSum(input.snapshot_weightings), Int2R(8760))

\* opts[k] is the first token of the option list that contains "Co2L": the
\* token whose CO2Limit constraint the network carries (pypsa refuses a second
\* constraint of the same name)
FirstCo2Token(k) ==
    /\ Contains(opts[k], Co2L)
    /\ \A j \in 1..(k - 1) : ~Contains(opts[j], Co2L)

HasCo2Limit(net) == CO2Limit \in DOMAIN net.global_constraints

\* the decimal number that ends the token o starts at position a
NumericSuffixAt(o, a) ==
    /\ IsDecimal(From(o, a))
    /\ a = 1 \/ o[a - 1] \notin Digits \cup {"."}

\* C1, as claimed: the CO2Limit constraint of a "Co2L" token without numeric
\* suffix has the configured co2limit itself as its constant, not multiplied
\* by the number of simulated years.
C1_LimitNotScaledByYears ==
    \A k \in 1..Len(opts) :
        (FirstCo2Token(k) /\ ~HasFloatSuffix(opts[k]) /\ HasCo2Limit(n))
        => n.global_constraints[CO2Limit].constant = config.electricity["co2limit"]

\* C1, amended: the CO2Limit constraint of a "Co2L" token without numeric
\* suffix has as its constant the configured co2limit multiplied by the number
\* of simulated years (total snapshot weight of the loaded network / 8760).
C1_LimitScaledByYears ==
    \A k \in 1..Len(opts) :
        (FirstCo2Token(k) /\ ~HasFloatSuffix(opts[k]) /\ HasCo2Limit(n))
        => n.global_constraints[CO2Limit].constant
              = RMul(config.electricity["co2limit"], InputYears)

\* C1 witness: a finished run over two simulated years whose output carries
\* the constraint of a suffix-less "Co2L" token, with constant 2 x co2limit.
C1_Witness ==
    /\ pc = "done"
    /\ InputYears = Int2R(2)
    /\ \E k \in 1..Len(opts) : FirstCo2Token(k) /\ ~HasFloatSuffix(opts[k])
    /\ HasCo2Limit(output.net)
    /\ output.net.global_constraints[CO2Limit].constant
          = RMul(Int2R(2), config.electricity["co2limit"])

\* C7: the CO2Limit constraint of a "Co2L" token that ends in the number f has
\* sense "<=" and constant f x co2base x Y, Y being the total snapshot weight
\* of the loaded network / 8760, wherever a resampling token stands.
C7_RelativeLimit ==
    \A k \in 1..Len(opts) : \A a \in 1..Len(opts[k]) :
        (FirstCo2Token(k) /\ NumericSuffixAt(opts[k], a) /\ HasCo2Limit(n))
        => /\ n.global_constraints[CO2Limit].sense = "<="
           /\ n.global_constraints[CO2Limit].constant
                 = RMul(RMul(DecimalValue(From(opts[k], a)),
                             config.electricity["co2base"]),
                        InputYears)

\* C7 witness: a finished run whose option list has a resampling token after
\* the token "Co2L0.5", whose snapshots were resampled and whose output
\* carries the CO2Limit constraint.
C7_Witness ==
    /\ pc = "done"
    /\ Len(opts) = 2
    /\ opts[1] = TokCo2L05
    /\ IsResampleToken(opts[2])
    /\ output.net.snapshot_weightings # input.snapshot_weightings
    /\ HasCo2Limit(output.net)
    /\ output.net.global_constraints[CO2Limit].constant
          = RMul(RMul(Rat(1, 2), config.electricity["co2base"]), InputYears)

\* C8: the output file is written only by a run in which every step has
\* completed without failure; a run in which a step fails ends without an
\* output file.
C8_NoOutputOnFailure ==
    /\ output.exists => (pc = "done" /\ error = "none" /\ output.net = n)
    /\ error # "none" => (pc = "failed" /\ ~output.exists)
    /\ pc = "failed" => (error # "none" /\ ~output.exists)

\* C8 witness: a run that ended with a lookup failure of a configuration key
\* its "Co2L" token needs, and wrote no output file.
C8_Witness ==
    /\ pc = "failed"
    /\ error = "KeyError"
    /\ \E k \in 1..Len(opts) :
          /\ Contains(opts[k], Co2L)
          /\ ~HasFloatSuffix(opts[k])
          /\ "co2limit" \notin DOMAIN config.electricity
    /\ ~output.exists

\* the statements up to and including the resampling loop
BeforeResampled == {"load", "set_line_s_max_pu", "resample"}

TimeAxis(net) ==
    <<net.snapshots, net.snapshot_weightings, net.loads_t_p_set>>

\* C10: once the resampling loop has run, the snapshots, their weightings and
\* the time series are those of the input resampled once, at the offset of
\* the first token matching <integer>H, and those of the input itself if no
\* token matches.
C10_FirstResampleOnly ==
    pc \notin BeforeResampled =>
        /\ \A k \in 1..Len(opts) :
              (/\ IsResampleToken(opts[k])
               /\ \A j \in 1..(k - 1) : ~IsResampleToken(opts[j]))
              => TimeAxis(n) = TimeAxis(average_every_nhours(input, opts[k]))
        /\ (\A k \in 1..Len(opts) : ~IsResampleToken(opts[k]))
              => TimeAxis(n) = TimeAxis(input)

\* C10 witness: a finished run with the option list "2H-3h" on four hourly
\* snapshots, whose output has the snapshots of hours 0 and 2 and not those of
\* hours 0 and 3.
C10_Witness ==
    /\ pc = "done"
    /\ opts = <<Tok2H, Tok3h>>
    /\ Len(input.snapshots) = 4
    /\ output.net.snapshots = <<0, 2>>
    /\ TimeAxis(output.net) # TimeAxis(average_every_nhours(input, Tok3h))

\* the tokens of the option list
OptSet == {opts[k] : k \in 1..Len(opts)}

\* the lines resp. links of net whose two buses lie in one country
Domestic(net, table) ==
    {k \in DOMAIN table :
        net.buses[table[k].bus0].country = net.buses[table[k].bus1].country}

\* C6: with "ATK" in the option list the output has no line and no link (also
\* when "ATKc" is there too); with "ATKc" and without "ATK" it has exactly the
\* lines and links of the input whose two buses lie in one country; with
\* neither it has all lines and links of the input.
C6_Autarky ==
    pc = "done" =>
        /\ ATK \in OptSet
              => /\ DOMAIN output.net.lines = {}
                 /\ DOMAIN output.net.links = {}
        /\ (ATK \notin OptSet /\ ATKc \in OptSet)
              => /\ DOMAIN output.net.lines = Domestic(input, input.lines)
                 /\ DOMAIN output.net.links = Domestic(input, input.links)
        /\ (ATK \notin OptSet /\ ATKc \notin OptSet)
              => /\ DOMAIN output.net.lines = DOMAIN input.lines
                 /\ DOMAIN output.net.links = DOMAIN input.links

\* C6 witness: a finished "ATKc" run on the network with three lines and three
\* links that kept the one domestic line and the one domestic link.
C6_Witness ==
    /\ pc = "done"
    /\ ATKc \in OptSet
    /\ ATK \notin OptSet
    /\ DOMAIN input.lines = {"L1", "L2", "L3"}
    /\ DOMAIN input.links = {"K1", "K2", "K3"}
    /\ DOMAIN output.net.lines = {"L1"}
    /\ DOMAIN output.net.links = {"K2"}

\* the transmission limit step runs and completes
TransmissionStep == pc = "set_transmission_limit" /\ pc' = "set_line_nom_max"

LLType == ll[1]
LLFactor == From(ll, 2)

\* every line of `after` is extendable with minimum capacity floors[l], every
\* DC link is extendable with its p_nom as minimum; other links are as before
MarkedExtendable(before, after, floors) ==
    /\ \A l \in DOMAIN after.lines :
          /\ after.lines[l].s_nom_extendable
          /\ after.lines[l].s_nom_min = floors[l]
    /\ \A k \in DOMAIN after.links :
          IF after.links[k].carrier = DC
          THEN /\ after.links[k].p_nom_extendable
               /\ after.links[k].p_nom_min = before.links[k].p_nom
          ELSE /\ after.links[k].p_nom_extendable = before.links[k].p_nom_extendable
               /\ after.links[k].p_nom_min = before.links[k].p_nom_min

ExtendabilityUntouched(before, after) ==
    /\ \A l \in DOMAIN after.lines :
          /\ after.lines[l].s_nom_extendable = before.lines[l].s_nom_extendable
          /\ after.lines[l].s_nom_min = before.lines[l].s_nom_min
    /\ \A k \in DOMAIN after.links :
          /\ after.links[k].p_nom_extendable = before.links[k].p_nom_extendable
          /\ after.links[k].p_nom_min = before.links[k].p_nom_min

\* `after` has the constraints of `before` and the one constraint `name`
OneConstraintAdded(before, after, name) ==
    /\ name \notin DOMAIN before.global_constraints
    /\ DOMAIN after.global_constraints = DOMAIN before.global_constraints \cup {name}
    /\ \A g \in DOMAIN before.global_constraints :
          after.global_constraints[g] = before.global_constraints[g]

\* what set_transmission_limit does to the network, the lines being floored
\* at floors[l]
TransmissionLimitSet(before, after, floors) ==
    /\ DOMAIN after.lines = DOMAIN before.lines
    /\ DOMAIN after.links = DOMAIN before.links
    /\ IF LLFactor = opt
       THEN /\ MarkedExtendable(before, after, floors)
            /\ after.global_constraints = before.global_constraints
       ELSE /\ OneConstraintAdded(before, after, <<"l", LLType>> \o <<"_", "l", "i", "m", "i", "t">>)
            /\ LET g == after.global_constraints[<<"l", LLType>> \o <<"_", "l", "i", "m", "i", "t">>]
               IN  /\ g.type = IF LLType = "c"
                               THEN "transmission_expansion_cost_limit"
                               ELSE "transmission_volume_expansion_limit"
                   /\ g.constant = RMul(DecimalValue(LLFactor),
                                        TransmissionRef(before, LLType))
            /\ IF RLt(One, DecimalValue(LLFactor))
               THEN MarkedExtendable(before, after, floors)
               ELSE ExtendabilityUntouched(before, after)

\* C5, as claimed: factor "opt" makes all lines and DC links extendable with
\* their current nominal capacity (s_nom, p_nom) as minimum and adds no
\* constraint; a numeric factor adds exactly one constraint l<type>_limit of
\* the type's kind with constant factor x reference and makes lines and DC
\* links extendable iff the factor exceeds 1.0.
C5_FlooredAtSNom ==
    [][TransmissionStep =>
        TransmissionLimitSet(n, n', [l \in DOMAIN n.lines |-> n.lines[l].s_nom])]_vars

\* C5, amended: as claimed, except that the minimum capacity of a line is its
\* s_nom only if the line has no line type, and otherwise
\* sqrt(3) x i_nom of its type x num_parallel x v_nom of its bus0.
C5_FlooredAtTypeCapacity ==
    [][TransmissionStep =>
        TransmissionLimitSet(n, n',
            [l \in DOMAIN n.lines |->
                IF n.lines[l].type = "" THEN n.lines[l].s_nom
                ELSE RMul(RMul(Sqrt3, n.line_types[n.lines[l].type].i_nom),
                          RMul(n.lines[l].num_parallel,
                               n.buses[n.lines[l].bus0].v_nom))])]_vars

\* C5 witness: after the transmission limit step with {ll} = v1.5 the typed
\* line L2 is extendable with a minimum capacity other than its s_nom, the DC
\* link K1 is extendable with its p_nom as minimum and the constraint lv_limit
\* is there.
C5_Witness ==
    /\ pc = "set_line_nom_max"
    /\ ll = LLv15
    /\ "L2" \in DOMAIN n.lines
    /\ n.lines["L2"].s_nom_extendable
    /\ n.lines["L2"].s_nom_min = Rat(433, 125)
    /\ n.lines["L2"].s_nom_min # n.lines["L2"].s_nom
    /\ "K1" \in DOMAIN n.links
    /\ n.links["K1"].p_nom_extendable
    /\ n.links["K1"].p_nom_min = n.links["K1"].p_nom
    /\ LimitName("v") \in DOMAIN n.global_constraints

\* C9, as claimed: with type char 'c' the constant of lc_limit is the factor
\* times the reference total taken over the capital costs the network has
\* after update_transmission_costs has run.
C9_RefFromRecomputedCosts ==
    (pc = "set_line_nom_max" /\ LLType = "c" /\ LLFactor # opt)
    => n.global_constraints[LimitName("c")].constant
          = RMul(DecimalValue(LLFactor), TransmissionRef(n, "c"))

\* C9, amended: with type char 'c' the constant of lc_limit is the factor
\* times the reference total taken over the capital costs the network carried
\* before update_transmission_costs ran, an earlier "AC+<factor>" scaling
\* included.
C9_RefFromCarriedCosts ==
    [][(TransmissionStep /\ LLType = "c" /\ LLFactor # opt)
        => n'.global_constraints[LimitName("c")].constant
              = RMul(DecimalValue(LLFactor),
                     RAdd(RSum([l \in DOMAIN n.lines |->
                                  RMul(LinesSNom(n, l), n.lines[l].capital_cost)],
                               DOMAIN n.lines),
                          RSum([k \in LinksDc(n) |->
                                  RMul(n.links[k].p_nom, n.links[k].capital_cost)],
                               LinksDc(n))))]_vars

\* C9 witness: after the transmission limit step of a "AC+1.5" run with
\* {ll} = c1.5, the lines carry the recomputed capital costs and the constant
\* of lc_limit differs from 1.5 x the reference total over these costs.
C9_Witness ==
    /\ pc = "set_line_nom_max"
    /\ ll = LLc15
    /\ TokAC15 \in OptSet
    /\ DOMAIN n.lines # {}
    /\ \A l \in DOMAIN n.lines :
          n.lines[l].capital_cost = RMul(n.lines[l].length, costs.hvac)
    /\ n.global_constraints[LimitName("c")].constant
          # RMul(Rat(3, 2), TransmissionRef(n, "c"))

\* C2: after the capacity ceiling step every line's s_nom_max is at most the
\* configured lines s_nom_max and every link's p_nom_max at most the
\* configured links p_nom_max; a ceiling that is not configured leaves the
\* values as they were.
C2_CeilingsEnforced ==
    pc = "autarky" =>
        /\ \A l \in DOMAIN n.lines :
              IF "s_nom_max" \in DOMAIN config["lines"]
              THEN RLeq(n.lines[l].s_nom_max, config["lines"]["s_nom_max"])
              ELSE n.lines[l].s_nom_max = input.lines[l].s_nom_max
        /\ \A k \in DOMAIN n.links :
              IF "p_nom_max" \in DOMAIN config["links"]
              THEN RLeq(n.links[k].p_nom_max, config["links"]["p_nom_max"])
              ELSE n.links[k].p_nom_max = input.links[k].p_nom_max

\* the carrier cost scaling loop runs the token <prefix>+<factor> whose prefix
\* is a carrier prefix of the network other than "AC", and completes
CarrierScalingStep ==
    /\ pc = "scaling"
    /\ pc' # "failed"
    /\ Len(Split(opts[i], "+")) = 2
    /\ Split(opts[i], "+")[1] \in Suptechs(n) \ {AC}
    /\ IsDecimal(Split(opts[i], "+")[2])

\* the capital costs of `after` are those of `before`, times factor for the
\* components whose carrier starts with prefix
ScaledByPrefix(before, after, prefix, factor) ==
    /\ DOMAIN after = DOMAIN before
    /\ \A k \in DOMAIN before :
          after[k].capital_cost =
              IF StartsWith(before[k].carrier, prefix)
              THEN RMul(before[k].capital_cost, factor)
              ELSE before[k].capital_cost

\* C3: the token <prefix>+<factor> multiplies by the factor the capital cost
\* of exactly the generators, links and storage units whose carrier starts
\* with the prefix and leaves every other capital cost unchanged.
C3_ScalesCarriersStartingWithPrefix ==
    [][CarrierScalingStep =>
        LET prefix == Split(opts[i], "+")[1]
            factor == DecimalValue(Split(opts[i], "+")[2])
        IN  /\ ScaledByPrefix(n.generators, n'.generators, prefix, factor)
            /\ ScaledByPrefix(n.links, n'.links, prefix, factor)
            /\ ScaledByPrefix(n.storage_units, n'.storage_units, prefix, factor)
            /\ \A l \in DOMAIN n.lines :
                  n'.lines[l].capital_cost = n.lines[l].capital_cost]_vars

\* the token o matches one of the recognized patterns of the option list
Recognized(net, o) ==
    \/ IsResampleToken(o)
    \/ Contains(o, Co2L)
    \/ Contains(o, SC)
    \/ Contains(o, Ep)
    \/ /\ Len(Split(o, "+")) >= 2
       /\ \E t \in Suptechs(net) : StartsWith(Split(o, "+")[1], t)
    \/ o = ATK
    \/ o = ATKc

\* C4: a token that matches no recognized pattern is ignored and never makes
\* the run fail; in particular the token that the carrier cost scaling loop
\* fails on for want of a "+<factor>" part is never an unrecognized one.
C4_UnrecognizedTokenIgnored ==
    (pc = "failed" /\ error = "IndexError") => Recognized(n, opts[i])

====
